---- MODULE Spec2Model ----
(***************************************************************************)
(* A model of the journal-buddy backend: the entries, summaries,           *)
(* conversations and messages tables, and the request handlers of          *)
(* routes/entries.ts, routes/insights.ts and routes/chat.ts, one step per  *)
(* awaited database statement or completion call; and of the chat part of  *)
(* the frontend store, stores/journalStore.ts.                             *)
(***************************************************************************)
EXTENDS Integers, Sequences, FiniteSets, TLC

VARIABLES
  now,            \* the current day (Date.now(), in whole days)
  entries,        \* table entries: row i has id i
  summaries,      \* table summaries
  conversations,  \* table conversations: row i has id i
  messages,       \* table messages, in created_at order
  sumReq,         \* GET /api/insights/summary requests
  entReq,         \* /api/entries requests
  chatReq,        \* /api/chat requests
  payload,        \* what a call of assembleContext returned
  insights,       \* what a GET /api/insights answered
  client          \* the store of the frontend and its sendMessage calls

vars == <<now, entries, summaries, conversations, messages, sumReq, entReq, chatReq,
          payload, insights, client>>

(***************************************************************************)
(* Bounds of the model.                                                    *)
(***************************************************************************)
MaxEntries == 2      \* rows the entries table can hold
NSumReq == 2         \* summary requests
NEntReq == 2         \* POST /api/entries and POST /api/entries/:id/reflect requests
NChatReq == 2        \* POST /api/chat requests
MaxConvs == 2        \* rows the conversations table can hold

\* currentConversation: null of the frontend store.
NoCurrentConversation == [id |-> 0, entry_id |-> 0, messages |-> <<>>]

\* A sendMessage call not made yet.
IdleCall == [pc |-> "idle", conversationId |-> 0, entryId |-> 0]

\* The frontend store before any sendMessage: currentConversation: null,
\* isTyping: false, selectedEntryId: null (0), and no call made.
NoClient ==
  [currentConversation |-> NoCurrentConversation,
   isTyping |-> FALSE,
   selectedEntryId |-> 0,
   calls |-> [k \in 1 .. NChatReq |-> IdleCall]]

Null == "null"
NotCalled == [called |-> FALSE]   \* no call was made, no answer given
Users == {"u1", "u2"}
DefaultUser == "u1"
RequestUsers == {DefaultUser}   \* the x-user-id of the requests
Periods == {"week", "month"}    \* the ?period= of a summary request
Moods == {"good", "okay", "rough"}

\* Day numbers: day d falls on weekday d % 7 (0 = Sunday, as Date.getDay()),
\* and day 1 is the first day of the month the model runs in.
FirstDay == 7        \* the day the model runs on

(***************************************************************************)
(* The completion service: an answer with a text block, an answer without  *)
(* one, or a failure (network error, timeout, refusal).                    *)
(***************************************************************************)
SummaryTexts == {"sA", "sB"}
ReflectionTexts == {"rA", "rB"}
ReplyTexts == {"aA"}
NoTextBlock == "undefined"

NoErr == [code |-> "", name |-> "", statusCode |-> 0]
CompletionError == [code |-> "", name |-> "APIError", statusCode |-> 0]
UniqueViolation == [code |-> "23505", name |-> "error", statusCode |-> 0]
StoreError == [code |-> "08006", name |-> "error", statusCode |-> 0]

\* errorHandler: the HTTP status an error passed to next(error) is answered with.
errorHandler(err) ==
  IF err.code = "23505" THEN 409
  ELSE IF err.code = "23503" THEN 400
  ELSE IF err.name = "SyntaxError" THEN 400
  ELSE IF err.statusCode # 0 THEN err.statusCode
  ELSE 500

\* textBlock?.text || ''  (generateReflection, generateWeeklySummary)
TextOrEmpty(answer) == IF answer = NoTextBlock THEN "" ELSE answer

(***************************************************************************)
(* Table entries.                                                          *)
(***************************************************************************)
\* INSERT INTO entries (user_id, content, mood, energy, tags) ... RETURNING *
InsertEntry(tbl, userId, content, mood, energy, tags) ==
  Append(tbl, [user_id |-> userId, content |-> content, mood |-> mood,
               energy |-> energy, tags |-> tags, themes |-> <<>>,
               reflection |-> Null, created_at |-> now, updated_at |-> now,
               deleted |-> FALSE])

\* UPDATE entries SET deleted_at = CURRENT_TIMESTAMP
\*   WHERE id = $1 AND user_id = $2 AND deleted_at IS NULL     (the rows it matches)
SoftDeleteMatches(tbl, id, userId) ==
  {i \in DOMAIN tbl : i = id /\ tbl[i].user_id = userId /\ ~tbl[i].deleted}

SoftDeleteEntry(tbl, id, userId) ==
  [i \in DOMAIN tbl |->
     IF i \in SoftDeleteMatches(tbl, id, userId)
     THEN [tbl[i] EXCEPT !.deleted = TRUE] ELSE tbl[i]]

(***************************************************************************)
(* Table summaries, UNIQUE (user_id, period_start, period_type).           *)
(***************************************************************************)
SameKey(row, userId, periodStart, periodType) ==
  /\ row.user_id = userId
  /\ row.period_start = periodStart
  /\ row.period_type = periodType

\* SELECT summary FROM summaries
\*   WHERE user_id = $1 AND period_start = $2 AND period_type = $3
SelectSummary(tbl, userId, periodStart, periodType) ==
  {i \in DOMAIN tbl : SameKey(tbl[i], userId, periodStart, periodType)}

\* A plain INSERT: a second row for the key raises the unique violation.
InsertSummary(tbl, row) ==
  IF SelectSummary(tbl, row.user_id, row.period_start, row.period_type) # {}
  THEN [rows |-> tbl, err |-> UniqueViolation]
  ELSE [rows |-> Append(tbl, row), err |-> NoErr]

\* INSERT ... ON CONFLICT (user_id, period_start, period_type)
\*   DO UPDATE SET summary = $5, entry_count = $6
UpsertSummary(tbl, row) ==
  LET hit == SelectSummary(tbl, row.user_id, row.period_start, row.period_type)
  IN IF hit # {}
     THEN [rows |-> [i \in DOMAIN tbl |->
                       IF i \in hit
                       THEN [tbl[i] EXCEPT !.summary = row.summary,
                                           !.entry_count = row.entry_count]
                       ELSE tbl[i]],
           err |-> NoErr]
     ELSE [rows |-> Append(tbl, row), err |-> NoErr]

(***************************************************************************)
(* GET /api/insights/summary                                               *)
(***************************************************************************)
\* getWeekStart: the Monday of the week of day d.
getWeekStart(d) ==
  LET day == d % 7
  IN d - day + (IF day = 0 THEN -6 ELSE 1)

\* new Date(now.getFullYear(), now.getMonth(), 1): the model runs inside one month.
MonthStart(d) == 1

PeriodTypeOf(period) == IF period = "month" THEN "monthly" ELSE "weekly"

StartDateOf(periodType, d) ==
  IF periodType = "monthly" THEN MonthStart(d) ELSE getWeekStart(d)

\* SELECT content, mood, created_at FROM entries
\*   WHERE user_id = $1 AND created_at >= $2 AND deleted_at IS NULL
SummaryEntries(tbl, userId, startDate) ==
  {i \in DOMAIN tbl :
     tbl[i].user_id = userId /\ tbl[i].created_at >= startDate /\ ~tbl[i].deleted}

NoSumResp == [status |-> 0, summary |-> Null, err |-> NoErr]

IdleSumReq ==
  [pc |-> "idle", user |-> DefaultUser, periodType |-> "weekly", startDate |-> 0,
   today |-> 0, existing |-> FALSE, rowCount |-> 0, summary |-> Null,
   calls |-> 0, threw |-> FALSE, resp |-> NoSumResp]

SumReqs == 1 .. NSumReq

\* Requests are numbered in the order they arrive.
SumMayStart(r) ==
  /\ sumReq[r].pc = "idle"
  /\ \A q \in SumReqs : q < r => sumReq[q].pc # "idle"

SumInFlight == {q \in SumReqs : sumReq[q].pc \notin {"idle", "done"}}

\* The handler without the early return on an existing summary.
SumCheckNoEarlyReturn(r, userId, period) ==
  LET periodType == PeriodTypeOf(period)
      startDate == StartDateOf(periodType, now)
      hit == SelectSummary(summaries, userId, startDate, periodType)
  IN /\ SumMayStart(r)
     /\ sumReq' = [sumReq EXCEPT ![r] =
          [sumReq[r] EXCEPT !.user = userId, !.periodType = periodType,
                            !.startDate = startDate, !.today = now,
                            !.existing = (hit # {}), !.pc = "entries"]]
     /\ UNCHANGED <<client, payload, insights, now, entries, summaries, conversations, messages, entReq, chatReq>>

\* The handler's first statement: the existing-summary check, and its early return.
SumCheck(r, userId, period) ==
  LET periodType == PeriodTypeOf(period)
      startDate == StartDateOf(periodType, now)
      hit == SelectSummary(summaries, userId, startDate, periodType)
      base == [sumReq[r] EXCEPT !.user = userId, !.periodType = periodType,
                                !.startDate = startDate, !.today = now]
  IN /\ SumMayStart(r)
     /\ IF hit # {}
        THEN sumReq' = [sumReq EXCEPT ![r] =
               [base EXCEPT !.pc = "done", !.existing = TRUE,
                            !.resp = [status |-> 200,
                                      summary |-> summaries[CHOOSE i \in hit : TRUE].summary,
                                      err |-> NoErr]]]
        ELSE sumReq' = [sumReq EXCEPT ![r] = [base EXCEPT !.pc = "entries"]]
     /\ UNCHANGED <<client, payload, insights, now, entries, summaries, conversations, messages, entReq, chatReq>>

\* The entries query, and the early return when the period has no entries.
SumEntries(r) ==
  LET rows == SummaryEntries(entries, sumReq[r].user, sumReq[r].startDate)
  IN /\ sumReq[r].pc = "entries"
     /\ IF rows = {}
        THEN sumReq' = [sumReq EXCEPT ![r].pc = "done",
                                      ![r].resp = [status |-> 200, summary |-> Null,
                                                   err |-> NoErr]]
        ELSE sumReq' = [sumReq EXCEPT ![r].pc = "generate",
                                      ![r].rowCount = Cardinality(rows)]
     /\ UNCHANGED <<client, payload, insights, now, entries, summaries, conversations, messages, entReq, chatReq>>

\* generateWeeklySummary answers.
SumGenerateOk(r) ==
  /\ sumReq[r].pc = "generate"
  /\ \E answer \in SummaryTexts \cup {NoTextBlock} :
       sumReq' = [sumReq EXCEPT ![r].pc = "save",
                                ![r].calls = @ + 1,
                                ![r].summary = TextOrEmpty(answer)]
  /\ UNCHANGED <<client, payload, insights, now, entries, summaries, conversations, messages, entReq, chatReq>>

\* A failed generation saves an empty summary instead of failing the request.
SumGenerateFailSwallowed(r) ==
  /\ sumReq[r].pc = "generate"
  /\ sumReq' = [sumReq EXCEPT ![r].pc = "save", ![r].calls = @ + 1,
                              ![r].threw = TRUE, ![r].summary = ""]
  /\ UNCHANGED <<client, payload, insights, now, entries, summaries, conversations, messages, entReq, chatReq>>

\* generateWeeklySummary throws: catch (error) { next(error) }.
SumGenerateFail(r) ==
  /\ sumReq[r].pc = "generate"
  /\ sumReq' = [sumReq EXCEPT ![r].pc = "done",
                              ![r].calls = @ + 1,
                              ![r].threw = TRUE,
                              ![r].resp = [status |-> errorHandler(CompletionError),
                                           summary |-> Null,
                                           err |-> CompletionError]]
  /\ UNCHANGED <<client, payload, insights, now, entries, summaries, conversations, messages, entReq, chatReq>>

\* The write of the generated summary, and the response.
SumSave(r) ==
  LET q == sumReq[r]
      res == UpsertSummary(summaries,
               [user_id |-> q.user, period_start |-> q.startDate,
                period_end |-> q.today, period_type |-> q.periodType,
                summary |-> q.summary, entry_count |-> q.rowCount])
  IN /\ q.pc = "save"
     /\ summaries' = res.rows
     /\ IF res.err # NoErr
        THEN sumReq' = [sumReq EXCEPT ![r].pc = "done",
                                      ![r].resp = [status |-> errorHandler(res.err),
                                                   summary |-> Null, err |-> res.err]]
        ELSE sumReq' = [sumReq EXCEPT ![r].pc = "done",
                                      ![r].resp = [status |-> 200, summary |-> q.summary,
                                                   err |-> NoErr]]
     /\ UNCHANGED <<client, payload, insights, now, entries, conversations, messages, entReq, chatReq>>

\* The INSERT of a POST /api/entries (without a reflection) running beside the
\* requests of another router.
EntryInserted(userId) ==
  /\ Len(entries) < MaxEntries
  /\ entries' = InsertEntry(entries, userId, "a", Null, Null, <<>>)
  /\ UNCHANGED <<client, payload, insights, now, summaries, conversations, messages, sumReq, entReq, chatReq>>

(***************************************************************************)
(* /api/entries                                                            *)
(***************************************************************************)
\* SELECT * FROM entries WHERE id = $1 AND user_id = $2 AND deleted_at IS NULL
SelectEntry(tbl, id, userId) ==
  {i \in DOMAIN tbl : i = id /\ tbl[i].user_id = userId /\ ~tbl[i].deleted}

\* UPDATE entries SET reflection = $1 WHERE id = $2
UpdateReflection(tbl, id, reflection) ==
  [i \in DOMAIN tbl |->
     IF i = id THEN [tbl[i] EXCEPT !.reflection = reflection] ELSE tbl[i]]

\* PATCH's dynamic SET clause: every key of the body, then updated_at.
ApplyUpdates(row, updates) ==
  [k \in DOMAIN row |->
     IF k \in DOMAIN updates THEN updates[k]
     ELSE IF k = "updated_at" THEN now
     ELSE row[k]]

\* UPDATE entries SET ..., updated_at = CURRENT_TIMESTAMP
\*   WHERE id = $n AND user_id = $m AND deleted_at IS NULL
UpdateEntry(tbl, id, userId, updates) ==
  [i \in DOMAIN tbl |->
     IF i \in SelectEntry(tbl, id, userId) THEN ApplyUpdates(tbl[i], updates)
     ELSE tbl[i]]

\* Bodies of PATCH requests (updateEntrySchema).
PatchBodies == {[content |-> "b"], [mood |-> "good", tags |-> <<"work">>]}

NoEntResp == [status |-> 0, reflection |-> Null, err |-> NoErr]

IdleEntReq ==
  [pc |-> "idle", kind |-> "", user |-> DefaultUser, id |-> 0, gen |-> FALSE,
   reflection |-> Null, threw |-> FALSE, resp |-> NoEntResp]

EntReqs == 1 .. NEntReq

EntMayStart(r) ==
  /\ entReq[r].pc = "idle"
  /\ \A q \in EntReqs : q < r => entReq[q].pc # "idle"

\* POST /api/entries: the INSERT, and the response when no reflection is asked for.
EntCreate(r, userId, content, mood, gen) ==
  /\ EntMayStart(r)
  /\ Len(entries) < MaxEntries
  /\ entries' = InsertEntry(entries, userId, content, mood, Null, <<>>)
  /\ entReq' = [entReq EXCEPT ![r] =
       [entReq[r] EXCEPT !.kind = "create", !.user = userId, !.gen = gen,
                         !.id = Len(entries) + 1,
                         !.pc = IF gen THEN "c_complete" ELSE "done",
                         !.resp = IF gen THEN NoEntResp
                                  ELSE [status |-> 201, reflection |-> Null,
                                        err |-> NoErr]]]
  /\ UNCHANGED <<client, payload, insights, now, summaries, conversations, messages, sumReq, chatReq>>

\* generateReflection(userId, entry) answers: its query for recent entries, then
\* the completion.
EntCreateCompleteOk(r) ==
  /\ entReq[r].pc = "c_complete"
  /\ \E answer \in ReflectionTexts \cup {NoTextBlock} :
       entReq' = [entReq EXCEPT ![r].pc = "c_update",
                                ![r].reflection = TextOrEmpty(answer)]
  /\ UNCHANGED <<client, payload, insights, now, entries, summaries, conversations, messages, sumReq, chatReq>>

\* The reflection's failure handed on to next(error).
EntCreateCompleteFailPropagated(r) ==
  /\ entReq[r].pc = "c_complete"
  /\ entReq' = [entReq EXCEPT ![r].pc = "done", ![r].threw = TRUE,
                              ![r].resp = [status |-> errorHandler(CompletionError),
                                           reflection |-> Null,
                                           err |-> CompletionError]]
  /\ UNCHANGED <<client, payload, insights, now, entries, summaries, conversations, messages, sumReq, chatReq>>

\* generateReflection throws: catch (reflectionError), then res.status(201).json(entry).
EntCreateCompleteFail(r) ==
  /\ entReq[r].pc = "c_complete"
  /\ entReq' = [entReq EXCEPT ![r].pc = "done", ![r].threw = TRUE,
                              ![r].resp = [status |-> 201, reflection |-> Null,
                                           err |-> NoErr]]
  /\ UNCHANGED <<client, payload, insights, now, entries, summaries, conversations, messages, sumReq, chatReq>>

\* The UPDATE that stores the reflection, and res.status(201).json(entry).
EntCreateUpdate(r) ==
  /\ entReq[r].pc = "c_update"
  /\ entries' = UpdateReflection(entries, entReq[r].id, entReq[r].reflection)
  /\ entReq' = [entReq EXCEPT ![r].pc = "done",
                              ![r].resp = [status |-> 201,
                                           reflection |-> entReq[r].reflection,
                                           err |-> NoErr]]
  /\ UNCHANGED <<client, payload, insights, now, summaries, conversations, messages, sumReq, chatReq>>

\* POST /api/entries/:id/reflect: the SELECT of the entry, and its 404.
EntReflect(r, userId, id) ==
  /\ EntMayStart(r)
  /\ entReq' = [entReq EXCEPT ![r] =
       [entReq[r] EXCEPT !.kind = "reflect", !.user = userId, !.id = id, !.gen = TRUE,
                         !.pc = IF SelectEntry(entries, id, userId) = {}
                                THEN "done" ELSE "r_complete",
                         !.resp = IF SelectEntry(entries, id, userId) = {}
                                  THEN [status |-> 404, reflection |-> Null,
                                        err |-> NoErr]
                                  ELSE NoEntResp]]
  /\ UNCHANGED <<client, payload, insights, now, entries, summaries, conversations, messages, sumReq, chatReq>>

\* generateReflection(userId, entry, style) answers: its query for recent entries,
\* then the completion.
EntReflectCompleteOk(r) ==
  /\ entReq[r].pc = "r_complete"
  /\ \E answer \in ReflectionTexts \cup {NoTextBlock} :
       entReq' = [entReq EXCEPT ![r].pc = "r_update",
                                ![r].reflection = TextOrEmpty(answer)]
  /\ UNCHANGED <<client, payload, insights, now, entries, summaries, conversations, messages, sumReq, chatReq>>

\* generateReflection throws: catch (error) { next(error) }.
EntReflectCompleteFail(r) ==
  /\ entReq[r].pc = "r_complete"
  /\ entReq' = [entReq EXCEPT ![r].pc = "done", ![r].threw = TRUE,
                              ![r].resp = [status |-> errorHandler(CompletionError),
                                           reflection |-> Null,
                                           err |-> CompletionError]]
  /\ UNCHANGED <<client, payload, insights, now, entries, summaries, conversations, messages, sumReq, chatReq>>

\* The UPDATE that stores the reflection, and res.json({ reflection }).
EntReflectUpdate(r) ==
  /\ entReq[r].pc = "r_update"
  /\ entries' = UpdateReflection(entries, entReq[r].id, entReq[r].reflection)
  /\ entReq' = [entReq EXCEPT ![r].pc = "done",
                              ![r].resp = [status |-> 200,
                                           reflection |-> entReq[r].reflection,
                                           err |-> NoErr]]
  /\ UNCHANGED <<client, payload, insights, now, summaries, conversations, messages, sumReq, chatReq>>

\* DELETE /api/entries/:id: one UPDATE; 404 when it matches no row, else 204.
EntDelete(userId, id) ==
  /\ entries' = SoftDeleteEntry(entries, id, userId)
  /\ UNCHANGED <<client, payload, insights, now, summaries, conversations, messages, sumReq, entReq, chatReq>>

\* PATCH /api/entries/:id: one UPDATE; 404 when it matches no row, else 200.
EntPatch(userId, id, updates) ==
  /\ entries' = UpdateEntry(entries, id, userId, updates)
  /\ UNCHANGED <<client, payload, insights, now, summaries, conversations, messages, sumReq, entReq, chatReq>>

InitEntries ==
  /\ now = FirstDay
  /\ entries = <<>>
  /\ summaries = <<>>
  /\ conversations = <<>>
  /\ messages = <<>>
  /\ sumReq = <<>>
  /\ entReq = [r \in EntReqs |-> IdleEntReq]
  /\ chatReq = <<>>
  /\ payload = NotCalled
  /\ insights = NotCalled
  /\ client = NoClient

NextEntries ==
  \/ \E r \in EntReqs, u \in RequestUsers, gen \in BOOLEAN :
       EntCreate(r, u, "a", Null, gen)
  \/ \E r \in EntReqs : EntCreateCompleteOk(r)
  \/ \E r \in EntReqs : EntCreateCompleteFail(r)
  \/ \E r \in EntReqs : EntCreateUpdate(r)
  \/ \E r \in EntReqs, u \in RequestUsers, id \in DOMAIN entries : EntReflect(r, u, id)
  \/ \E r \in EntReqs : EntReflectCompleteOk(r)
  \/ \E r \in EntReqs : EntReflectCompleteFail(r)
  \/ \E r \in EntReqs : EntReflectUpdate(r)
  \/ \E u \in RequestUsers, id \in DOMAIN entries : EntDelete(u, id)
  \/ \E u \in RequestUsers, id \in DOMAIN entries, b \in PatchBodies : EntPatch(u, id, b)

SpecEntries == InitEntries /\ [][NextEntries]_vars


(***************************************************************************)
(* services/claude: assembleContext, buildSystemPrompt, chat               *)
(***************************************************************************)
Min(a, b) == IF a < b THEN a ELSE b

\* ORDER BY created_at DESC over the rows `ids` of `tbl` (rows of one day in
\* insertion order, the later insert being the newer row).
RECURSIVE NewestFirst(_, _)
NewestFirst(tbl, ids) ==
  IF ids = {} THEN <<>>
  ELSE LET m == CHOOSE i \in ids :
                  \A j \in ids :
                    \/ tbl[j].created_at < tbl[i].created_at
                    \/ (tbl[j].created_at = tbl[i].created_at /\ j <= i)
       IN <<m>> \o NewestFirst(tbl, ids \ {m})

\* LIMIT n, slice(0, n)
Limit(rows, n) == SubSeq(rows, 1, Min(n, Len(rows)))

RecentDays == 7
RecentLimit == 10
RecurringMinCount == 2
RecurringLimit == 5

\* The same SELECT without AND deleted_at IS NULL.
RecentEntryIdsWithDeleted(tbl, userId) ==
  Limit(NewestFirst(tbl, {i \in DOMAIN tbl :
                            /\ tbl[i].user_id = userId
                            /\ tbl[i].created_at >= now - RecentDays}),
        RecentLimit)

\* SELECT id, content, mood, tags, themes, created_at FROM entries
\*   WHERE user_id = $1 AND created_at >= $2 AND deleted_at IS NULL
\*   ORDER BY created_at DESC LIMIT 10            (the ids of the rows, in order)
RecentEntryIds(tbl, userId) ==
  Limit(NewestFirst(tbl, {i \in DOMAIN tbl :
                            /\ tbl[i].user_id = userId
                            /\ tbl[i].created_at >= now - RecentDays
                            /\ ~tbl[i].deleted}),
        RecentLimit)

RECURSIVE SumSeq(_)
SumSeq(xs) == IF xs = <<>> THEN 0 ELSE Head(xs) + SumSeq(Tail(xs))

MoodValue(mood) ==
  CASE mood = "good" -> 1
    [] mood = "okay" -> 0
    [] mood = "rough" -> -1
    [] OTHER -> 0

HasMood(e) == e.mood # Null

\* calculateMoodTrend; the averages are compared as fractions:
\*   a/m > b/k + 0.2  iff  5*a*k > 5*b*m + m*k.
\* (The doubles of the source agree with the fractions unless the two averages
\* differ by exactly 0.2, which takes nine or ten entries with a mood.)
calculateMoodTrend(es) ==
  LET mooded == SelectSeq(es, HasMood)
      moodValues == [k \in DOMAIN mooded |-> MoodValue(mooded[k].mood)]
      n == Len(moodValues)
      midpoint == n \div 2
      recentSum == SumSeq(SubSeq(moodValues, 1, midpoint))
      olderSum == SumSeq(SubSeq(moodValues, midpoint + 1, n))
      olderN == n - midpoint
  IN IF n < 2 THEN "Not enough data"
     ELSE IF 5 * recentSum * olderN > 5 * olderSum * midpoint + midpoint * olderN
          THEN "Trending up compared to earlier this week"
     ELSE IF 5 * recentSum * olderN < 5 * olderSum * midpoint - midpoint * olderN
          THEN "Trending down compared to earlier this week"
     ELSE "Relatively stable this week"

RECURSIVE Flatten(_)
Flatten(xss) == IF xss = <<>> THEN <<>> ELSE Head(xss) \o Flatten(Tail(xss))

\* The keys of the Map in insertion order: each theme at its first appearance.
FirstSeen(xs) ==
  SelectSeq([k \in DOMAIN xs |-> [x |-> xs[k], k |-> k]],
            LAMBDA p : \A j \in 1 .. (p.k - 1) : xs[j] # p.x)

CountOf(xs, x) == Cardinality({k \in DOMAIN xs : xs[k] = x})

\* Array.prototype.sort((a, b) => b[1] - a[1]): stable, descending by count.
RECURSIVE SortByCountDesc(_)
SortByCountDesc(ps) ==
  IF ps = <<>> THEN <<>>
  ELSE LET top == CHOOSE k \in DOMAIN ps :
                    /\ \A j \in DOMAIN ps : ps[j].count <= ps[k].count
                    /\ \A j \in 1 .. (k - 1) : ps[j].count < ps[k].count
       IN <<ps[top]>> \o
          SortByCountDesc(SubSeq(ps, 1, top - 1) \o SubSeq(ps, top + 1, Len(ps)))

\* The same without filter(count >= 2).
RecurringThemesUnfiltered(recentEntries) ==
  LET all == Flatten([k \in DOMAIN recentEntries |-> recentEntries[k].themes])
      keys == FirstSeen(all)
      counted == [k \in DOMAIN keys |-> [theme |-> keys[k].x,
                                         count |-> CountOf(all, keys[k].x)]]
      sorted == SortByCountDesc(counted)
  IN Limit([k \in DOMAIN sorted |-> sorted[k].theme], RecurringLimit)

\* themeCounts, filter(count >= 2), sort, map, slice(0, 5)
RecurringThemes(recentEntries) ==
  LET all == Flatten([k \in DOMAIN recentEntries |-> recentEntries[k].themes])
      keys == FirstSeen(all)
      counted == [k \in DOMAIN keys |-> [theme |-> keys[k].x,
                                         count |-> CountOf(all, keys[k].x)]]
      recurring == SelectSeq(counted, LAMBDA p : p.count >= RecurringMinCount)
      sorted == SortByCountDesc(recurring)
  IN Limit([k \in DOMAIN sorted |-> sorted[k].theme], RecurringLimit)

\* The same SELECT without AND period_type = 'monthly'.
LongTermSummaryAnyPeriod(tbl, userId) ==
  LET any == {i \in DOMAIN tbl : tbl[i].user_id = userId}
  IN IF any = {} THEN ""
     ELSE tbl[CHOOSE i \in any :
                \A j \in any : tbl[j].period_start <= tbl[i].period_start].summary

\* SELECT summary FROM summaries WHERE user_id = $1 AND period_type = 'monthly'
\*   ORDER BY period_start DESC LIMIT 1;  summaryResult.rows[0]?.summary || ''
LongTermSummary(tbl, userId) ==
  LET monthly == {i \in DOMAIN tbl :
                    tbl[i].user_id = userId /\ tbl[i].period_type = "monthly"}
  IN IF monthly = {} THEN ""
     ELSE tbl[CHOOSE i \in monthly :
                \A j \in monthly : tbl[j].period_start <= tbl[i].period_start].summary

assembleContext(userId) ==
  LET ids == RecentEntryIds(entries, userId)
      recentEntries == [k \in DOMAIN ids |->
                          [date |-> entries[ids[k]].created_at,
                           content |-> entries[ids[k]].content,
                           mood |-> entries[ids[k]].mood,
                           themes |-> entries[ids[k]].themes]]
  IN [recentEntries |-> recentEntries,
      moodTrend |-> calculateMoodTrend(recentEntries),
      recurringThemes |-> RecurringThemes(recentEntries),
      longTermSummary |-> LongTermSummary(summaries, userId)]

NoCurrentEntry == "undefined"

\* A prompt with the session section put before the context sections.
buildSystemPromptSessionFirst(context, currentEntry) ==
  LET sessionSection ==
        IF currentEntry # "undefined" /\ currentEntry # ""
        THEN << [heading |-> "Current Entry Being Discussed",
                 body |-> <<currentEntry>>] >>
        ELSE <<>>
  IN << [heading |-> "BASE_SYSTEM_PROMPT", body |-> <<>>] >> \o sessionSection \o
     << [heading |-> "Recent Entries (Last 7 Days)",
         body |-> [k \in DOMAIN context.recentEntries |->
                     context.recentEntries[k].content]],
        [heading |-> "Mood Pattern", body |-> <<context.moodTrend>>],
        [heading |-> "Recurring Themes", body |-> context.recurringThemes],
        [heading |-> "Long-Term Context", body |-> <<context.longTermSummary>>] >>

\* buildSystemPrompt: the prompt as its sections, in order, each a heading and
\* the lines under it.
buildSystemPrompt(context, currentEntry) ==
  LET contextSection ==
        << [heading |-> "BASE_SYSTEM_PROMPT", body |-> <<>>],
           [heading |-> "Recent Entries (Last 7 Days)",
            body |-> [k \in DOMAIN context.recentEntries |->
                        context.recentEntries[k].content]],
           [heading |-> "Mood Pattern", body |-> <<context.moodTrend>>],
           [heading |-> "Recurring Themes",
            body |-> IF Len(context.recurringThemes) > 0
                     THEN context.recurringThemes
                     ELSE <<"No clear patterns yet">>],
           [heading |-> "Long-Term Context",
            body |-> IF context.longTermSummary # ""
                     THEN <<context.longTermSummary>>
                     ELSE <<"No long-term summary available yet">>] >>
      sessionSection ==
        IF currentEntry # NoCurrentEntry /\ currentEntry # ""
        THEN << [heading |-> "Current Entry Being Discussed",
                 body |-> <<currentEntry>>] >>
        ELSE <<>>
  IN contextSection \o sessionSection

Placeholder == "I'm having trouble responding right now."

\* chat: textBlock?.text || 'I\'m having trouble responding right now.'
ChatText(answer) == IF answer = NoTextBlock THEN Placeholder ELSE answer

(***************************************************************************)
(* GET /api/insights                                                       *)
(***************************************************************************)
InsightPeriods == {"week", "month", "quarter"}

\* startDate = now - 7, 30 or 90 days (7 for any other period).
InsightsStart(period) ==
  CASE period = "week" -> now - 7
    [] period = "month" -> now - 30
    [] period = "quarter" -> now - 90
    [] OTHER -> now - 7

\* SELECT id, content, mood, tags, themes, word_count, created_at FROM entries
\*   WHERE user_id = $1 AND created_at >= $2 AND deleted_at IS NULL
\*   ORDER BY created_at DESC                    (the ids of the rows, in order)
InsightsEntryIds(tbl, userId, startDate) ==
  NewestFirst(tbl, {i \in DOMAIN tbl :
                      /\ tbl[i].user_id = userId
                      /\ tbl[i].created_at >= startDate
                      /\ ~tbl[i].deleted})

\* The entries without a mood counted as okay.
MoodDistributionNullAsOkay(es) ==
  [m \in Moods |->
     Cardinality({k \in DOMAIN es : es[k].mood = m \/ (m = "okay" /\ es[k].mood = Null)})]

\* moodDistribution: the entries of each mood.
MoodDistribution(es) ==
  [m \in Moods |-> Cardinality({k \in DOMAIN es : es[k].mood = m})]

\* moodScore as a fraction: the sum of the weights over Math.max(length, 1).
moodScore(es) ==
  [sum |-> SumSeq([k \in DOMAIN es |-> MoodValue(es[k].mood)]),
   over |-> IF Len(es) > 1 THEN Len(es) ELSE 1]

\* The halves named as for entries oldest first.
InsightsHalvesOldestFirst(es) ==
  LET midpoint == Len(es) \div 2
  IN [midpoint |-> midpoint,
      firstHalf |-> SubSeq(es, 1, midpoint),
      secondHalf |-> SubSeq(es, midpoint + 1, Len(es))]

\* midpoint, firstHalf (the older entries) and secondHalf (the newer entries)
\* of the entries, newest first.
InsightsHalves(es) ==
  LET midpoint == Len(es) \div 2
  IN [midpoint |-> midpoint,
      firstHalf |-> SubSeq(es, midpoint + 1, Len(es)),
      secondHalf |-> SubSeq(es, 1, midpoint)]

\* The mood trend of the entries, newest first; the scores are compared as
\* fractions:  a/m > b/k + 0.1  iff  10*a*k > 10*b*m + m*k.
\* (The doubles of the source agree with the fractions unless the two scores
\* differ by exactly 0.1, which takes nine entries or more.)
InsightsMoodTrend(es) ==
  LET halves == InsightsHalves(es)
      first == moodScore(halves.firstHalf)
      second == moodScore(halves.secondHalf)
  IN IF 10 * second.sum * first.over > 10 * first.sum * second.over + first.over * second.over
     THEN "up"
     ELSE IF 10 * second.sum * first.over < 10 * first.sum * second.over - first.over * second.over
     THEN "down"
     ELSE "stable"

TopLimit == 5

\* The counted labels in the order of the Map, not sorted.
TopCountsUnsorted(lists) ==
  LET all == Flatten(lists)
      keys == FirstSeen(all)
      counted == [k \in DOMAIN keys |-> [theme |-> keys[k].x,
                                         count |-> CountOf(all, keys[k].x)]]
  IN Limit(counted, TopLimit)

\* tagCounts / themeCounts, sort((a, b) => b[1] - a[1]), slice(0, 5): the
\* labels of the lists with their counts.
TopCounts(lists) ==
  LET all == Flatten(lists)
      keys == FirstSeen(all)
      counted == [k \in DOMAIN keys |-> [theme |-> keys[k].x,
                                         count |-> CountOf(all, keys[k].x)]]
  IN Limit(SortByCountDesc(counted), TopLimit)

TopTags(es) ==
  LET top == TopCounts([k \in DOMAIN es |-> es[k].tags])
  IN [k \in DOMAIN top |-> [tag |-> top[k].theme, count |-> top[k].count]]

TopThemes(es) ==
  LET top == TopCounts([k \in DOMAIN es |-> es[k].themes])
  IN [k \in DOMAIN top |-> top[k].theme]

\* SELECT DISTINCT DATE(created_at) as entry_date FROM entries
\*   WHERE user_id = $1 AND deleted_at IS NULL ORDER BY entry_date DESC
StreakDates(tbl, userId) ==
  {tbl[i].created_at : i \in {j \in DOMAIN tbl : tbl[j].user_id = userId /\ ~tbl[j].deleted}}

\* The loop of calculateStreak over the dates below `limit`, newest first.
RECURSIVE StreakFrom(_, _)
StreakFrom(dates, currentDate) ==
  IF dates = {} THEN 0
  ELSE LET date == CHOOSE d \in dates : \A e \in dates : e <= d
           diffDays == currentDate - date
       IN IF diffDays = 0 \/ diffDays = 1
          THEN 1 + StreakFrom(dates \ {date}, date)
          ELSE 0

\* The walk started from the newest entry date, not from today.
calculateStreakFromNewest(tbl, userId) ==
  LET dates == StreakDates(tbl, userId)
  IN IF dates = {} THEN 0
     ELSE StreakFrom(dates, CHOOSE d \in dates : \A e \in dates : e <= d)

\* The walk started from yesterday, not from today.
calculateStreakFromYesterday(tbl, userId) == StreakFrom(StreakDates(tbl, userId), now - 1)

calculateStreak(tbl, userId) == StreakFrom(StreakDates(tbl, userId), now)

\* insightsRouter.get('/'): the insights answered (totalWords, a sum over a
\* column the database fills, is left out).
Insights(userId, period) ==
  LET ids == InsightsEntryIds(entries, userId, InsightsStart(period))
      es == [k \in DOMAIN ids |-> entries[ids[k]]]
  IN [entryCount |-> Len(es),
      moodDistribution |-> MoodDistribution(es),
      moodTrend |-> InsightsMoodTrend(es),
      topTags |-> TopTags(es),
      topThemes |-> TopThemes(es),
      streak |-> calculateStreak(entries, userId)]

(***************************************************************************)
(* /api/chat                                                               *)
(***************************************************************************)
\* SELECT * FROM conversations WHERE id = $1 AND user_id = $2
SelectConversation(tbl, id, userId) ==
  {i \in DOMAIN tbl : i = id /\ tbl[i].user_id = userId}

\* INSERT INTO conversations (user_id, entry_id, session_type) ... RETURNING *
\* (entry_id 0 is NULL)
InsertConversation(tbl, userId, entryId) ==
  Append(tbl, [user_id |-> userId, entry_id |-> entryId,
               session_type |-> IF entryId # 0 THEN "entry_reflection" ELSE "freeform",
               updated_at |-> now, deleted |-> FALSE])

\* INSERT INTO messages (conversation_id, role, content)
InsertMessage(tbl, conversationId, role, content) ==
  Append(tbl, [conversation_id |-> conversationId, role |-> role, content |-> content])

\* SELECT * FROM messages WHERE conversation_id = $1 ORDER BY created_at ASC,
\* mapped to { role, content }
ConversationHistory(tbl, conversationId) ==
  LET rows == SelectSeq(tbl, LAMBDA m : m.conversation_id = conversationId)
  IN [k \in DOMAIN rows |-> [role |-> rows[k].role, content |-> rows[k].content]]

\* SELECT content FROM entries WHERE id = $1
SelectEntryContent(tbl, id) == {i \in DOMAIN tbl : i = id}

\* The text of the message the r-th request sends, and the text the completion
\* service answers it with: each carries the request it belongs to.
MessageOf(r) == <<"message", r>>
ReplyOf(r, text) == <<text, r>>

NoConversation ==
  [id |-> 0, user_id |-> DefaultUser, entry_id |-> 0, session_type |-> "freeform",
   updated_at |-> 0, deleted |-> FALSE]

NoContext ==
  [recentEntries |-> <<>>, moodTrend |-> "", recurringThemes |-> <<>>,
   longTermSummary |-> ""]

NoChatResp == [status |-> 0, conversationId |-> 0, response |-> <<"", 0>>, err |-> NoErr]

IdleChatReq ==
  [pc |-> "idle", kind |-> "", user |-> DefaultUser, conversation |-> NoConversation,
   history |-> <<>>, context |-> NoContext, currentEntry |-> NoCurrentEntry,
   response |-> <<"", 0>>, threw |-> FALSE, resp |-> NoChatResp]

ChatReqs == 1 .. NChatReq

ChatMayStart(r) ==
  /\ chatReq[r].pc = "idle"
  /\ \A q \in ChatReqs : q < r => chatReq[q].pc # "idle"

ConversationRow(tbl, id) ==
  [id |-> id, user_id |-> tbl[id].user_id, entry_id |-> tbl[id].entry_id,
   session_type |-> tbl[id].session_type, updated_at |-> tbl[id].updated_at,
   deleted |-> tbl[id].deleted]

\* POST /api/chat with a conversationId: the SELECT of the conversation, and its 404.
ChatContinue(r, userId, conversationId) ==
  LET hit == SelectConversation(conversations, conversationId, userId)
  IN /\ ChatMayStart(r)
     /\ chatReq' = [chatReq EXCEPT ![r] =
          IF hit = {}
          THEN [chatReq[r] EXCEPT !.kind = "post", !.user = userId, !.pc = "done",
                                  !.resp = [NoChatResp EXCEPT !.status = 404]]
          ELSE [chatReq[r] EXCEPT !.kind = "post", !.user = userId, !.pc = "saveUser",
                                  !.conversation =
                                     ConversationRow(conversations, conversationId)]]
     /\ UNCHANGED <<client, payload, insights, now, entries, summaries, conversations, messages, sumReq, entReq>>

\* POST /api/chat without a conversationId: the INSERT of a new conversation.
ChatCreate(r, userId, entryId) ==
  /\ ChatMayStart(r)
  /\ Len(conversations) < MaxConvs
  /\ conversations' = InsertConversation(conversations, userId, entryId)
  /\ chatReq' = [chatReq EXCEPT ![r] =
       [chatReq[r] EXCEPT !.kind = "post", !.user = userId, !.pc = "saveUser",
                          !.conversation =
                             ConversationRow(conversations', Len(conversations'))]]
  /\ UNCHANGED <<client, payload, insights, now, entries, summaries, messages, sumReq, entReq>>

\* Save user message.
ChatSaveUser(r) ==
  /\ chatReq[r].pc = "saveUser"
  /\ messages' = InsertMessage(messages, chatReq[r].conversation.id, "user", MessageOf(r))
  /\ chatReq' = [chatReq EXCEPT ![r].pc = "history"]
  /\ UNCHANGED <<client, payload, insights, now, entries, summaries, conversations, sumReq, entReq>>

\* Get conversation history, then get context for Claude: assembleContext(userId).
\* The two reads are of different tables (messages; entries and summaries), so
\* every write that falls between them can be ordered before or after both.
ChatHistory(r) ==
  /\ chatReq[r].pc = "history"
  /\ chatReq' = [chatReq EXCEPT ![r].pc = IF chatReq[r].conversation.entry_id # 0
                                          THEN "entry" ELSE "complete",
                                ![r].history =
                                   ConversationHistory(messages, chatReq[r].conversation.id),
                                ![r].context = assembleContext(chatReq[r].user)]
  /\ UNCHANGED <<client, payload, insights, now, entries, summaries, conversations, messages, sumReq, entReq>>

\* A failed read answered with an empty context, the request going on.
ChatContextFailEmpty(r) ==
  /\ chatReq[r].pc = "history"
  /\ chatReq' = [chatReq EXCEPT ![r].pc = IF chatReq[r].conversation.entry_id # 0
                                          THEN "entry" ELSE "complete",
                                ![r].history =
                                   ConversationHistory(messages, chatReq[r].conversation.id),
                                ![r].context = [recentEntries |-> <<>>,
                                                moodTrend |-> "Not enough data",
                                                recurringThemes |-> <<>>,
                                                longTermSummary |-> ""],
                                ![r].resp = [NoChatResp EXCEPT !.err = StoreError]]
  /\ UNCHANGED <<client, payload, insights, now, entries, summaries, conversations, messages,
                 sumReq, entReq>>

\* A read of the store inside assembleContext fails: query rejects,
\* assembleContext rejects, catch (error) { next(error) }.
ChatContextFail(r) ==
  /\ chatReq[r].pc = "history"
  /\ chatReq' = [chatReq EXCEPT ![r].pc = "done",
                                ![r].resp = [NoChatResp EXCEPT
                                               !.status = errorHandler(StoreError),
                                               !.err = StoreError]]
  /\ UNCHANGED <<client, payload, insights, now, entries, summaries, conversations, messages,
                 sumReq, entReq>>

\* Get entry if this conversation is about one.
ChatEntry(r) ==
  LET hit == SelectEntryContent(entries, chatReq[r].conversation.entry_id)
  IN /\ chatReq[r].pc = "entry"
     /\ chatReq' = [chatReq EXCEPT ![r].pc = "complete",
                                   ![r].currentEntry =
                                      IF hit # {}
                                      THEN entries[CHOOSE i \in hit : TRUE].content
                                      ELSE NoCurrentEntry]
     /\ UNCHANGED <<client, payload, insights, now, entries, summaries, conversations, messages, sumReq, entReq>>

\* The request's record once chat(context, conversationHistory, currentEntry) has
\* returned or thrown: its three arguments are not used again.
ChatReturned(req) ==
  [req EXCEPT !.history = <<>>, !.context = NoContext, !.currentEntry = NoCurrentEntry]

\* const systemPrompt = buildSystemPrompt(context, currentEntry): the system
\* prompt the request at its completion call sends.
ChatPrompt(r) == buildSystemPrompt(chatReq[r].context, chatReq[r].currentEntry)

\* Generate response: chat(context, conversationHistory, currentEntry) answers.
ChatCompleteOk(r) ==
  /\ chatReq[r].pc = "complete"
  /\ \E answer \in ReplyTexts \cup {NoTextBlock} :
       chatReq' = [chatReq EXCEPT ![r] =
         [ChatReturned(chatReq[r]) EXCEPT !.pc = "saveAssistant",
                                          !.response = ReplyOf(r, ChatText(answer))]]
  /\ UNCHANGED <<client, payload, insights, now, entries, summaries, conversations, messages, sumReq, entReq>>

\* A failed completion answered with the placeholder as the assistant's reply.
ChatCompleteFailPlaceholder(r) ==
  /\ chatReq[r].pc = "complete"
  /\ chatReq' = [chatReq EXCEPT ![r] =
       [ChatReturned(chatReq[r]) EXCEPT !.pc = "saveAssistant", !.threw = TRUE,
                                        !.response = ReplyOf(r, Placeholder)]]
  /\ UNCHANGED <<client, payload, insights, now, entries, summaries, conversations, messages, sumReq, entReq>>

\* chat throws: catch (error) { next(error) }.
ChatCompleteFail(r) ==
  /\ chatReq[r].pc = "complete"
  /\ chatReq' = [chatReq EXCEPT ![r] =
       [ChatReturned(chatReq[r]) EXCEPT !.pc = "done", !.threw = TRUE,
                                        !.resp = [NoChatResp EXCEPT
                                                    !.status = errorHandler(CompletionError),
                                                    !.err = CompletionError]]]
  /\ UNCHANGED <<client, payload, insights, now, entries, summaries, conversations, messages, sumReq, entReq>>

\* Save assistant message, update conversation timestamp, and
\* res.json({ conversationId, response }).
ChatSaveAssistant(r) ==
  /\ chatReq[r].pc = "saveAssistant"
  /\ messages' = InsertMessage(messages, chatReq[r].conversation.id, "assistant",
                               chatReq[r].response)
  /\ conversations' = [conversations EXCEPT ![chatReq[r].conversation.id].updated_at = now]
  /\ chatReq' = [chatReq EXCEPT ![r].pc = "done",
                                ![r].resp = [status |-> 200,
                                             conversationId |-> chatReq[r].conversation.id,
                                             response |-> chatReq[r].response,
                                             err |-> NoErr]]
  /\ UNCHANGED <<client, payload, insights, now, entries, summaries, sumReq, entReq>>

\* GET /api/chat/conversations/:id: the SELECT of the conversation and its 404,
\* then the SELECT of its messages and the response.
ChatGet(r, userId, id) ==
  LET hit == SelectConversation(conversations, id, userId)
  IN /\ ChatMayStart(r)
     /\ chatReq' = [chatReq EXCEPT ![r] =
          IF hit = {}
          THEN [chatReq[r] EXCEPT !.kind = "get", !.user = userId, !.pc = "done",
                                  !.resp = [NoChatResp EXCEPT !.status = 404]]
          ELSE [chatReq[r] EXCEPT !.kind = "get", !.user = userId, !.pc = "done",
                                  !.conversation = ConversationRow(conversations, id),
                                  !.history = ConversationHistory(messages, id),
                                  !.resp = [NoChatResp EXCEPT !.status = 200,
                                                              !.conversationId = id]]]
     /\ UNCHANGED <<client, payload, insights, now, entries, summaries, conversations, messages, sumReq, entReq>>

\* DELETE /api/chat/conversations/:id: one UPDATE ... SET deleted_at
\*   WHERE id = $1 AND user_id = $2 AND deleted_at IS NULL; 404 or 204.
ChatDelete(userId, id) ==
  /\ conversations' =
       [i \in DOMAIN conversations |->
          IF i = id /\ conversations[i].user_id = userId /\ ~conversations[i].deleted
          THEN [conversations[i] EXCEPT !.deleted = TRUE] ELSE conversations[i]]
  /\ UNCHANGED <<client, payload, insights, now, entries, summaries, messages, sumReq, entReq, chatReq>>

\* The requests of /api/chat over an entries table that holds one entry.
InitChat ==
  /\ now = FirstDay
  /\ entries = InsertEntry(<<>>, DefaultUser, "a", Null, Null, <<>>)
  /\ summaries = <<>>
  /\ conversations = <<>>
  /\ messages = <<>>
  /\ sumReq = <<>>
  /\ entReq = <<>>
  /\ chatReq = [r \in ChatReqs |-> IdleChatReq]
  /\ payload = NotCalled
  /\ insights = NotCalled
  /\ client = NoClient

NextChat ==
  \/ \E r \in ChatReqs, u \in RequestUsers, c \in DOMAIN conversations :
       ChatContinue(r, u, c)
  \/ \E r \in ChatReqs, u \in RequestUsers, e \in DOMAIN entries \cup {0} :
       ChatCreate(r, u, e)
  \/ \E r \in ChatReqs : ChatSaveUser(r)
  \/ \E r \in ChatReqs : ChatHistory(r)
  \/ \E r \in ChatReqs : ChatContextFail(r)
  \/ \E r \in ChatReqs : ChatEntry(r)
  \/ \E r \in ChatReqs : ChatCompleteOk(r)
  \/ \E r \in ChatReqs : ChatCompleteFail(r)
  \/ \E r \in ChatReqs : ChatSaveAssistant(r)
  \/ \E r \in ChatReqs, u \in RequestUsers, c \in DOMAIN conversations : ChatGet(r, u, c)
  \/ \E u \in RequestUsers, c \in DOMAIN conversations : ChatDelete(u, c)

SpecChat == InitChat /\ [][NextChat]_vars

\* The same requests beside the creation and the deletion of entries.
InitChatEntries ==
  /\ now = FirstDay
  /\ entries = <<>>
  /\ summaries = <<>>
  /\ conversations = <<>>
  /\ messages = <<>>
  /\ sumReq = <<>>
  /\ entReq = <<>>
  /\ chatReq = [r \in ChatReqs |-> IdleChatReq]
  /\ payload = NotCalled
  /\ insights = NotCalled
  /\ client = NoClient

NextChatEntries ==
  \/ NextChat
  \/ \E u \in Users : EntryInserted(u)
  \/ \E u \in Users, id \in DOMAIN entries : EntDelete(u, id)

SpecChatEntries == InitChatEntries /\ [][NextChatEntries]_vars

(***************************************************************************)
(* The frontend store (stores/journalStore.ts): sendMessage, and the       *)
(* POST /api/chat requests its calls make.  The k-th call makes the k-th   *)
(* request, and the requests reach the server in the order of the calls.   *)
(***************************************************************************)
\* id: `temp-conv-${Date.now()}`, an id the server never gives.
TempConversationId == -1

\* currentConversation?.id.startsWith('temp')
IsTemp(id) == id = TempConversationId

\* selectEntry(id)
selectEntry(id) ==
  /\ client.selectedEntryId # id
  /\ client' = [client EXCEPT !.selectedEntryId = id]
  /\ UNCHANGED <<now, entries, summaries, conversations, messages, sumReq, entReq,
                 chatReq, payload, insights>>

\* sendMessage(content) up to its await: the optimistic user message,
\* setIsTyping(true), and the parameters of api.sendMessage.
sendMessage(k) ==
  LET currentConversation == client.currentConversation
      userMessage == [id |-> <<"temp", k>>, role |-> "user", content |-> MessageOf(k)]
  IN /\ client.calls[k].pc = "idle"
     /\ \A q \in ChatReqs : q < k => client.calls[q].pc # "idle"
     /\ client' =
          [client EXCEPT
             !.currentConversation =
                IF currentConversation # NoCurrentConversation
                THEN [currentConversation EXCEPT !.messages = Append(@, userMessage)]
                ELSE [id |-> TempConversationId,
                      entry_id |-> client.selectedEntryId,
                      messages |-> <<userMessage>>],
             !.isTyping = TRUE,
             !.calls[k] =
                [pc |-> "sent",
                 conversationId |->
                    IF currentConversation = NoCurrentConversation
                       \/ IsTemp(currentConversation.id)
                    THEN 0 ELSE currentConversation.id,
                 entryId |-> client.selectedEntryId]]
     /\ UNCHANGED <<now, entries, summaries, conversations, messages, sumReq, entReq,
                    chatReq, payload, insights>>

\* The request of the k-th call reaches the server: POST /api/chat with the
\* X-User-Id of the fetcher, { message, conversationId, entryId }.
SendMessagePosted(k) ==
  /\ client.calls[k].pc = "sent"
  /\ IF client.calls[k].conversationId = 0
     THEN ChatCreate(k, DefaultUser, client.calls[k].entryId)
     ELSE ChatContinue(k, DefaultUser, client.calls[k].conversationId)

\* The k-th call has its response: the assistant message is appended, the
\* conversation takes the id of the response, and setIsTyping(false).
SendMessageOk(k) ==
  LET assistantMessage == [id |-> <<"assistant", k>>, role |-> "assistant",
                           content |-> chatReq[k].resp.response]
  IN /\ client.calls[k].pc = "sent"
     /\ chatReq[k].pc = "done"
     /\ chatReq[k].resp.status = 200
     /\ client' =
          [client EXCEPT
             !.currentConversation =
                IF @ # NoCurrentConversation
                THEN [@ EXCEPT !.id = chatReq[k].resp.conversationId,
                               !.messages = Append(@, assistantMessage)]
                ELSE NoCurrentConversation,
             !.isTyping = FALSE,
             !.calls[k].pc = "done"]
     /\ UNCHANGED <<now, entries, summaries, conversations, messages, sumReq, entReq,
                    chatReq, payload, insights>>

\* The fetcher of the k-th call throws (!response.ok): messages.slice(0, -1)
\* and setIsTyping(false).
SendMessageFailed(k) ==
  /\ client.calls[k].pc = "sent"
  /\ chatReq[k].pc = "done"
  /\ chatReq[k].resp.status # 200
  /\ client' =
       [client EXCEPT
          !.currentConversation =
             IF @ # NoCurrentConversation
             THEN [@ EXCEPT !.messages = SubSeq(@, 1, Len(@) - 1)]
             ELSE NoCurrentConversation,
          !.isTyping = FALSE,
          !.calls[k].pc = "done"]
  /\ UNCHANGED <<now, entries, summaries, conversations, messages, sumReq, entReq,
                 chatReq, payload, insights>>

NextFrontend ==
  \/ \E id \in DOMAIN entries \cup {0} : selectEntry(id)
  \/ \E k \in ChatReqs : sendMessage(k)
  \/ \E k \in ChatReqs : SendMessagePosted(k)
  \/ \E r \in ChatReqs : ChatSaveUser(r)
  \/ \E r \in ChatReqs : ChatHistory(r)
  \/ \E r \in ChatReqs : ChatContextFail(r)
  \/ \E r \in ChatReqs : ChatEntry(r)
  \/ \E r \in ChatReqs : ChatCompleteOk(r)
  \/ \E r \in ChatReqs : ChatCompleteFail(r)
  \/ \E r \in ChatReqs : ChatSaveAssistant(r)
  \/ \E k \in ChatReqs : SendMessageOk(k)
  \/ \E k \in ChatReqs : SendMessageFailed(k)

SpecFrontend == InitChat /\ [][NextFrontend]_vars

(***************************************************************************)
(* The entry store as the requests of /api/entries and the passing of time *)
(* build it, and a call of assembleContext on it.                          *)
(***************************************************************************)
MaxWindowEntries == 12   \* rows of the store a context is assembled from
MaxExceptions == 1       \* rows of it that are another user's or soft-deleted

\* The content of the i-th entry.
EntryText(i) == ToString(i)

\* The themes column of a row: no statement of the source writes it; the
\* generator that labels an entry fills it.
LabelThemes(row, themes) == [row EXCEPT !.themes = themes]

\* Time passing between two requests: a week, or a week and a day.
DayJumps == {RecentDays, RecentDays + 1}
LastDay == FirstDay + RecentDays + 1

Exceptions == {i \in DOMAIN entries : entries[i].user_id # DefaultUser \/ entries[i].deleted}

\* POST /api/entries by userId: the INSERT (created_at = CURRENT_TIMESTAMP).
StoreInsert(max, userId, mood, tags, themes) ==
  /\ payload = NotCalled /\ insights = NotCalled
  /\ Len(entries) < max
  /\ userId # DefaultUser => Cardinality(Exceptions) < MaxExceptions
  /\ LET tbl == InsertEntry(entries, userId, EntryText(Len(entries) + 1), mood, Null, tags)
     IN entries' = [tbl EXCEPT ![Len(tbl)] = LabelThemes(tbl[Len(tbl)], themes)]
  /\ UNCHANGED <<client, now, summaries, conversations, messages, sumReq, entReq, chatReq,
                 payload, insights>>

\* DELETE /api/entries/:id by the entry's owner.
StoreDelete(id) ==
  /\ payload = NotCalled /\ insights = NotCalled
  /\ ~entries[id].deleted
  /\ Cardinality(Exceptions \cup {id}) <= MaxExceptions
  /\ entries' = SoftDeleteEntry(entries, id, entries[id].user_id)
  /\ UNCHANGED <<client, now, summaries, conversations, messages, sumReq, entReq, chatReq,
                 payload, insights>>

StoreTick(days) ==
  /\ payload = NotCalled /\ insights = NotCalled
  /\ now + days <= LastDay
  /\ now' = now + days
  /\ UNCHANGED <<client, entries, summaries, conversations, messages, sumReq, entReq, chatReq,
                 payload, insights>>

\* const context = await assembleContext(userId)
ContextAssembled(userId) ==
  /\ payload = NotCalled
  /\ payload' = [called |-> TRUE, userId |-> userId,
                 context |-> assembleContext(userId)]
  /\ UNCHANGED <<client, now, entries, summaries, conversations, messages, sumReq, entReq,
                 chatReq, insights>>

InitStore ==
  /\ now = FirstDay
  /\ entries = <<>>
  /\ summaries = <<>>
  /\ conversations = <<>>
  /\ messages = <<>>
  /\ sumReq = <<>>
  /\ entReq = <<>>
  /\ chatReq = <<>>
  /\ payload = NotCalled
  /\ insights = NotCalled
  /\ client = NoClient

\* assembleContext over a store of many entries.
NextContextWindow ==
  \/ \E u \in Users : StoreInsert(MaxWindowEntries, u, Null, <<>>, <<>>)
  \/ \E id \in DOMAIN entries : StoreDelete(id)
  \/ \E d \in DayJumps : StoreTick(d)
  \/ \E u \in Users : ContextAssembled(u)

SpecContextWindow == InitStore /\ [][NextContextWindow]_vars

MaxContextEntries == 2   \* rows of the smaller stores
MaxSummaries == 1        \* rows of the summaries table

\* What a GET /api/insights/summary of userId that generated `answer` saves.
StoreSummary(userId, period, answer) ==
  LET periodType == PeriodTypeOf(period)
      res == UpsertSummary(summaries,
               [user_id |-> userId, period_start |-> StartDateOf(periodType, now),
                period_end |-> now, period_type |-> periodType,
                summary |-> TextOrEmpty(answer), entry_count |-> 1])
  IN /\ payload = NotCalled /\ insights = NotCalled
     /\ Len(res.rows) <= MaxSummaries
     /\ summaries' = res.rows
     /\ UNCHANGED <<client, now, entries, conversations, messages, sumReq, entReq, chatReq,
                    payload, insights>>

\* assembleContext over a store of few entries, with summaries.
NextContextEmpty ==
  \/ \E u \in Users : StoreInsert(MaxContextEntries, u, Null, <<>>, <<>>)
  \/ \E id \in DOMAIN entries : StoreDelete(id)
  \/ \E d \in DayJumps : StoreTick(d)
  \/ \E u \in Users, p \in Periods, a \in SummaryTexts \cup {NoTextBlock} :
       StoreSummary(u, p, a)
  \/ \E u \in Users : ContextAssembled(u)

SpecContextEmpty == InitStore /\ [][NextContextEmpty]_vars

\* The themes the entries of the smaller stores are labelled with.
ThemeLists ==
  { <<>>,
    <<"t1", "t2", "t3", "t4", "t5", "t6">>,
    <<"t2", "t1", "t1">>,
    <<"t7", "t1", "t2", "t3", "t4", "t5", "t6">> }

\* assembleContext over a store of few entries, with moods and themes.
NextContext ==
  \/ \E mood \in Moods \cup {Null}, themes \in ThemeLists :
       StoreInsert(MaxContextEntries, DefaultUser, mood, <<>>, themes)
  \/ \E u \in RequestUsers : ContextAssembled(u)

SpecContext == InitStore /\ [][NextContext]_vars

MaxInsightEntries == 3   \* rows of the store the insights are asked of

\* Time passing between two entries: one, two or three days.
InsightJumps == {1, 2, 3}

\* The entries written to the store the insights are asked of: mood, tags and
\* the themes they are labelled with.
InsightEntries ==
  { [mood |-> "rough", tags |-> <<"work">>, themes |-> <<"t1", "t2">>],
    [mood |-> "okay", tags |-> <<"work", "health">>, themes |-> <<"t3", "t1", "t1">>],
    [mood |-> "good", tags |-> <<"wins">>, themes |-> <<"t4", "t5", "t6">>],
    [mood |-> Null, tags |-> <<"g1", "g2", "g3">>, themes |-> <<>>] }

\* insightsRouter.get('/') by userId: res.json(insights).
InsightsAnswered(userId, period) ==
  /\ insights = NotCalled
  /\ insights' = [called |-> TRUE, userId |-> userId, period |-> period,
                  result |-> Insights(userId, period)]
  /\ UNCHANGED <<client, now, entries, summaries, conversations, messages, sumReq, entReq,
                 chatReq, payload>>

\* GET /api/insights over a store of few entries written days apart, the
\* first of them on the first day.
NextInsights ==
  \/ \E e \in InsightEntries :
       StoreInsert(MaxInsightEntries, DefaultUser, e.mood, e.tags, e.themes)
  \/ \E d \in InsightJumps : entries # <<>> /\ StoreTick(d)
  \/ \E u \in RequestUsers, p \in InsightPeriods : InsightsAnswered(u, p)

SpecInsights == InitStore /\ [][NextInsights]_vars

\* GET /api/insights over a store of entries of several users written days
\* apart, some of them deleted.
NextStreak ==
  \/ \E u \in Users : StoreInsert(MaxInsightEntries, u, Null, <<>>, <<>>)
  \/ \E id \in DOMAIN entries : StoreDelete(id)
  \/ \E d \in InsightJumps : StoreTick(d)
  \/ \E u \in Users, p \in InsightPeriods : InsightsAnswered(u, p)

SpecStreak == InitStore /\ [][NextStreak]_vars

InitSummary ==
  /\ now = FirstDay
  /\ entries = <<>>
  /\ summaries = <<>>
  /\ conversations = <<>>
  /\ messages = <<>>
  /\ sumReq = [r \in SumReqs |-> IdleSumReq]
  /\ entReq = <<>>
  /\ chatReq = <<>>
  /\ payload = NotCalled
  /\ insights = NotCalled
  /\ client = NoClient

NextSummary ==
  \/ \E r \in SumReqs, u \in RequestUsers, p \in Periods : SumCheck(r, u, p)
  \/ \E r \in SumReqs : SumEntries(r)
  \/ \E r \in SumReqs : SumGenerateOk(r)
  \/ \E r \in SumReqs : SumGenerateFail(r)
  \/ \E r \in SumReqs : SumSave(r)
  \/ \E u \in RequestUsers : EntryInserted(u)
  \/ \E u \in RequestUsers, id \in DOMAIN entries : EntDelete(u, id)

SpecSummary == InitSummary /\ [][NextSummary]_vars

\* The same handlers with one summary request at a time.
NextSummarySeq ==
  \/ \E r \in SumReqs, u \in RequestUsers, p \in Periods :
       SumInFlight = {} /\ SumCheck(r, u, p)
  \/ \E r \in SumReqs : SumEntries(r)
  \/ \E r \in SumReqs : SumGenerateOk(r)
  \/ \E r \in SumReqs : SumGenerateFail(r)
  \/ \E r \in SumReqs : SumSave(r)
  \/ \E u \in RequestUsers : EntryInserted(u)
  \/ \E u \in RequestUsers, id \in DOMAIN entries : EntDelete(u, id)

SpecSummarySeq == InitSummary /\ [][NextSummarySeq]_vars

(***************************************************************************)
(* assembleContext: what the claims speak of.                              *)
(***************************************************************************)
\* The entries that qualify for the recent entries of a user: the user's own,
\* not soft-deleted, created within the last 7 days.
C11_Qualifying(userId) ==
  {i \in DOMAIN entries :
     /\ entries[i].user_id = userId
     /\ ~entries[i].deleted
     /\ entries[i].created_at >= now - 7}

\* The entries a payload's recentEntries are the rows of, in order.
C11_Returned(rs) ==
  [k \in DOMAIN rs |-> CHOOSE i \in DOMAIN entries : EntryText(i) = rs[k].content]

\* C11: assembleContext returns at most 10 recent entries, each the user's
\* own, created within the last 7 days and not soft-deleted, newest first;
\* when more than 10 qualify it returns the 10 newest of them, and otherwise
\* all that qualify.
C11_RecentEntriesWindow ==
  payload.called =>
    LET rs == payload.context.recentEntries
        ids == C11_Returned(rs)
        Q == C11_Qualifying(payload.userId)
    IN /\ Len(rs) <= 10
       /\ Len(rs) = IF Cardinality(Q) > 10 THEN 10 ELSE Cardinality(Q)
       /\ \A k \in DOMAIN rs :
            /\ ids[k] \in Q
            /\ rs[k].date = entries[ids[k]].created_at
            /\ \A l \in DOMAIN rs : k < l => ids[k] > ids[l] /\ rs[k].date >= rs[l].date
       /\ \A i \in Q :
            (\A k \in DOMAIN rs : ids[k] # i) => \A k \in DOMAIN rs : i < ids[k]

C11_Witness ==
  /\ payload.called
  /\ Cardinality(C11_Qualifying(payload.userId)) > 10
  /\ Len(payload.context.recentEntries) = 10
  /\ \E i \in DOMAIN entries : i \notin C11_Qualifying(payload.userId)

\* C12: a call of assembleContext for a user who has no entry in the window
\* and no monthly summary returns recentEntries = [], recurringThemes = [],
\* longTermSummary = "" and the mood trend 'Not enough data'; the call writes
\* no summary and no entry (it generates nothing).
C12_EmptyContext ==
  [][(/\ ~payload.called
      /\ payload'.called
      /\ C11_Qualifying(payload'.userId) = {}
      /\ \A i \in DOMAIN summaries :
           ~(summaries[i].user_id = payload'.userId /\ summaries[i].period_type = "monthly")) =>
       /\ payload'.context = [recentEntries |-> <<>>,
                              moodTrend |-> "Not enough data",
                              recurringThemes |-> <<>>,
                              longTermSummary |-> ""]
       /\ summaries' = summaries
       /\ entries' = entries
       /\ sumReq' = sumReq]_vars

C12_Witness ==
  /\ payload.called
  /\ payload.context.recentEntries = <<>>
  /\ payload.context.longTermSummary = ""
  /\ \E i \in DOMAIN entries : entries[i].user_id = payload.userId
  /\ \E i \in DOMAIN summaries : summaries[i].summary # ""

\* The moodTrend of an entry list, newest first: the halves split at
\* floor(n/2) over all the entries, each half averaged over its entry count,
\* up or down decided with a threshold of 0.1, and the sentinel when there are
\* fewer than 2 entries.
C14_MoodTrend(es) ==
  IF Len(es) < 2 THEN "insufficient data" ELSE InsightsMoodTrend(es)

\* What a sentence of the payload's mood trend says.
C14_Says(sentence) ==
  CASE sentence = "Trending up compared to earlier this week" -> "up"
    [] sentence = "Trending down compared to earlier this week" -> "down"
    [] sentence = "Relatively stable this week" -> "stable"
    [] sentence = "Not enough data" -> "insufficient data"

\* C14 as stated: the mood trend assembleContext puts in the payload is the
\* moodTrend of the fetched entries, newest first (halves over all fetched
\* entries, entries without a mood counting in the denominator, threshold 0.1,
\* sentinel below 2 fetched entries).
C14_PayloadTrendIsMoodTrend ==
  payload.called =>
    C14_Says(payload.context.moodTrend) = C14_MoodTrend(payload.context.recentEntries)

\* The occurrences of a theme across the themes of a list of entries.
C17_Count(es, theme) ==
  Cardinality({p \in UNION {{<<k, j>> : j \in DOMAIN es[k].themes} : k \in DOMAIN es} :
                 es[p[1]].themes[p[2]] = theme})

C17_Themes(es) == UNION {{es[k].themes[j] : j \in DOMAIN es[k].themes} : k \in DOMAIN es}

\* C17: the recurringThemes of a payload hold at most 5 themes, no theme
\* twice, each occurring at least twice across the themes of the fetched
\* entries, in descending order of occurrence count.
C17_RecurringThemesBounded ==
  payload.called =>
    LET es == payload.context.recentEntries
        rt == payload.context.recurringThemes
    IN /\ Len(rt) <= 5
       /\ \A k, l \in DOMAIN rt : k # l => rt[k] # rt[l]
       /\ \A k \in DOMAIN rt : C17_Count(es, rt[k]) >= 2
       /\ \A k, l \in DOMAIN rt : k < l => C17_Count(es, rt[k]) >= C17_Count(es, rt[l])

C17_Witness ==
  /\ payload.called
  /\ Len(payload.context.recurringThemes) = 5
  /\ Cardinality({t \in C17_Themes(payload.context.recentEntries) :
                    C17_Count(payload.context.recentEntries, t) >= 2}) > 5
  /\ \E t \in C17_Themes(payload.context.recentEntries) :
       C17_Count(payload.context.recentEntries, t) = 1

(***************************************************************************)
(* Chat requests: what the claims speak of.                                *)
(***************************************************************************)
ChatPost(r) == chatReq[r].kind = "post"

\* The r-th request holds the history it read for its turn.
ChatHoldsHistory(r) == ChatPost(r) /\ chatReq[r].pc \in {"entry", "complete"}

\* The places of a message in a history.
PlacesOf(history, role, content) ==
  {k \in DOMAIN history : history[k].role = role /\ history[k].content = content}

\* The r-th request's user message, or an assistant reply to it, is a row of messages.
HasUserMessage(r) ==
  \E k \in DOMAIN messages :
    messages[k].role = "user" /\ messages[k].content = MessageOf(r)

HasAssistantMessage(r) ==
  \E k \in DOMAIN messages :
    messages[k].role = "assistant" /\ messages[k].content[2] = r

\* C1 as stated, for POST /api/chat: when the entry a conversation refers to is
\* soft-deleted at the time the request reads it, the system prompt the request
\* sends to the completion service has no "Current Entry Being Discussed"
\* section, so the deleted entry's content is not in the prompt.
C1_DeletedEntryNotInPrompt ==
  [][\A r \in ChatReqs :
       (/\ chatReq[r].pc = "entry"
        /\ chatReq'[r].pc = "complete"
        /\ chatReq[r].conversation.entry_id \in DOMAIN entries
        /\ entries[chatReq[r].conversation.entry_id].deleted) =>
         \A k \in DOMAIN ChatPrompt(r)' :
           ChatPrompt(r)'[k].heading # "Current Entry Being Discussed"]_vars

\* C13: when a read of the store inside assembleContext fails, the chat turn
\* that called it gets no payload (no empty context in its place), ends with
\* the error (status 500), invokes no completion and persists no assistant
\* message.
C13_StoreFailureGivesNoContext ==
  \A r \in ChatReqs :
    chatReq[r].resp.err = StoreError =>
      /\ chatReq[r].pc = "done"
      /\ chatReq[r].resp.status = 500
      /\ chatReq[r].context = NoContext
      /\ chatReq[r].response = IdleChatReq.response
      /\ ~chatReq[r].threw
      /\ ~HasAssistantMessage(r)

C13_Witness ==
  \E r, q \in ChatReqs :
    /\ chatReq[r].resp.err = StoreError
    /\ HasUserMessage(r)
    /\ q # r /\ chatReq[q].conversation.id = chatReq[r].conversation.id
    /\ chatReq[q].resp.status = 200

\* C8 as stated: for two turns of one conversation, the earlier being the one
\* whose user message was persisted first and which was answered, the history
\* read for the later turn has the earlier turn's user message, then its
\* assistant reply, then the later turn's user message, whatever the
\* interleaving of the two POST /api/chat requests.
C8_HistoryHasEarlierTurn ==
  \A r1, r2 \in ChatReqs :
    (/\ r1 # r2
     /\ ChatPost(r1) /\ chatReq[r1].pc = "done" /\ chatReq[r1].resp.status = 200
     /\ ChatHoldsHistory(r2)
     /\ chatReq[r1].conversation.id = chatReq[r2].conversation.id
     /\ \E k1 \in PlacesOf(chatReq[r2].history, "user", MessageOf(r1)),
           k2 \in PlacesOf(chatReq[r2].history, "user", MessageOf(r2)) : k1 < k2) =>
      \E k1 \in PlacesOf(chatReq[r2].history, "user", MessageOf(r1)),
         ka \in PlacesOf(chatReq[r2].history, "assistant", chatReq[r1].resp.response),
         k2 \in PlacesOf(chatReq[r2].history, "user", MessageOf(r2)) :
        k1 < ka /\ ka < k2

\* C9: when the completion call of a chat turn fails, the request ends with the
\* error (status 500) and no assistant message for that turn is a row of
\* messages, then or later.
C9_FailedTurnHasNoAssistantMessage ==
  \A r \in ChatReqs :
    chatReq[r].threw =>
      /\ chatReq[r].pc = "done"
      /\ chatReq[r].resp.status = 500
      /\ chatReq[r].resp.err = CompletionError
      /\ ~HasAssistantMessage(r)

C9_Witness ==
  \E r, q \in ChatReqs :
    /\ chatReq[r].threw /\ chatReq[r].pc = "done"
    /\ HasUserMessage(r)
    /\ q # r /\ chatReq[q].conversation.id = chatReq[r].conversation.id
    /\ HasAssistantMessage(q)

\* C10 as stated: a GET /api/chat/conversations/:id or a POST /api/chat whose
\* lookup of the conversation runs after the conversation was soft-deleted is
\* answered 404, and no message of that request is appended.
C10_DeletedConversationNotFound ==
  \A r \in ChatReqs :
    chatReq[r].conversation.deleted =>
      /\ chatReq[r].pc = "done" => chatReq[r].resp.status = 404
      /\ ~HasUserMessage(r)
      /\ ~HasAssistantMessage(r)


\* C24 as stated, for POST /api/chat: when the entry a conversation refers to
\* is owned by another user than the one the request is made for, the system
\* prompt the request sends to the completion service has no "Current Entry
\* Being Discussed" section, so that entry's content is not in the prompt.
C24_OtherUsersEntryNotInPrompt ==
  [][\A r \in ChatReqs :
       (/\ chatReq[r].pc = "entry"
        /\ chatReq'[r].pc = "complete"
        /\ chatReq[r].conversation.entry_id \in DOMAIN entries
        /\ entries[chatReq[r].conversation.entry_id].user_id # chatReq[r].user) =>
         \A k \in DOMAIN ChatPrompt(r)' :
           ChatPrompt(r)'[k].heading # "Current Entry Being Discussed"]_vars

\* C25 as stated: the history a POST /api/chat request read for its turn, which
\* it sends to the completion service, ends with the request's own user
\* message, whatever the interleaving of two requests of one conversation.
C25_HistoryEndsWithOwnMessage ==
  \A r \in ChatReqs :
    ChatHoldsHistory(r) =>
      /\ chatReq[r].history # <<>>
      /\ chatReq[r].history[Len(chatReq[r].history)] =
           [role |-> "user", content |-> MessageOf(r)]

\* C26 as stated: in every state the messages of a conversation, in creation
\* order, start with a user message and hold no two consecutive messages of
\* the same role.
C26_RolesAlternate ==
  \A c \in DOMAIN conversations :
    LET history == ConversationHistory(messages, c)
    IN /\ history # <<>> => history[1].role = "user"
       /\ \A k \in DOMAIN history :
            k < Len(history) => history[k].role # history[k + 1].role

\* C30 as stated: the content of every assistant message of a conversation is
\* a text the completion service returned for its turn; an answer without a
\* text block leaves no placeholder as an assistant message.
C30_AssistantMessageIsReturnedText ==
  \A k \in DOMAIN messages :
    messages[k].role = "assistant" =>
      /\ messages[k].content[1] \in ReplyTexts
      /\ messages[k].content[1] # Placeholder

(***************************************************************************)
(* buildSystemPrompt: what the claims speak of.                            *)
(***************************************************************************)
C15_Persona == "BASE_SYSTEM_PROMPT"
C15_EntryLabel == "Current Entry Being Discussed"

\* The r-th request is about to send its prompt to the completion service.
C15_Sends(r) == ChatPost(r) /\ chatReq[r].pc = "complete"

C16_EmptySectionsOmitted ==
  \A r \in ChatReqs :
    C15_Sends(r) =>
      \A k \in DOMAIN ChatPrompt(r) :
        /\ ChatPrompt(r)[k].heading = "Recent Entries (Last 7 Days)" =>
             chatReq[r].context.recentEntries # <<>>
        /\ ChatPrompt(r)[k].heading = "Recurring Themes" =>
             chatReq[r].context.recurringThemes # <<>>
        /\ ChatPrompt(r)[k].heading = "Long-Term Context" =>
             chatReq[r].context.longTermSummary # ""

(***************************************************************************)
(* GET /api/insights: what the claims speak of.                            *)
(***************************************************************************)
\* The rows the answered request fetched, newest first.
InsightsFetched ==
  LET ids == InsightsEntryIds(entries, insights.userId, InsightsStart(insights.period))
  IN [k \in DOMAIN ids |-> entries[ids[k]]]

\* C18 as stated: the mood trend the insights report over no entry or over
\* exactly one entry is the insufficient-data sentinel, none of up, stable and
\* down.
C18_SentinelBelowTwoEntries ==
  insights.called /\ insights.result.entryCount < 2 =>
    insights.result.moodTrend \notin {"up", "stable", "down"}

\* The insights were asked of a store of exactly three entries written 6, 3
\* and 1 days ago with moods rough, okay and good.
C19_Scenario ==
  /\ insights.called
  /\ Len(entries) = 3
  /\ entries[1].created_at = now - 6 /\ entries[1].mood = "rough"
  /\ entries[2].created_at = now - 3 /\ entries[2].mood = "okay"
  /\ entries[3].created_at = now - 1 /\ entries[3].mood = "good"

\* C19 as stated: of these three entries the insights put the entries of 3
\* and 1 days ago in the older half (average 0.5) and the entry of 6 days ago
\* in the newer half (average -1) at midpoint 1, and report down.
C19_ScenarioReportsDown ==
  C19_Scenario =>
    LET halves == InsightsHalves(InsightsFetched)
        older == moodScore(halves.firstHalf)
        newer == moodScore(halves.secondHalf)
    IN /\ halves.midpoint = 1
       /\ 2 * older.sum = older.over
       /\ newer.sum = - newer.over
       /\ insights.result.moodTrend = "down"

\* C19: of these three entries, fetched newest first, the insights put the
\* entry of 1 day ago in the newer half (average 1) and the entries of 3 and 6
\* days ago in the older half (average -0.5) at midpoint 1, and report up.
C19_ScenarioReportsUp ==
  C19_Scenario =>
    LET halves == InsightsHalves(InsightsFetched)
        older == moodScore(halves.firstHalf)
        newer == moodScore(halves.secondHalf)
    IN /\ InsightsFetched = <<entries[3], entries[2], entries[1]>>
       /\ halves.midpoint = 1
       /\ halves.secondHalf = <<entries[3]>>
       /\ halves.firstHalf = <<entries[2], entries[1]>>
       /\ newer = [sum |-> 1, over |-> 1]
       /\ older = [sum |-> -1, over |-> 2]
       /\ insights.result.moodTrend = "up"

C19_Witness == C19_Scenario /\ insights.result.entryCount = 3

\* The places of a sequence of lists: list and index in the list.
C20_Places(lists) == UNION {{<<k, j>> : j \in DOMAIN lists[k]} : k \in DOMAIN lists}

C20_Labels(lists) == {lists[p[1]][p[2]] : p \in C20_Places(lists)}

\* The occurrences of a label in the lists.
C20_Count(lists, x) == Cardinality({p \in C20_Places(lists) : lists[p[1]][p[2]] = x})

\* top is the labels of the lists by descending count, ties in order of
\* first appearance, cut to 5; x goes before y when it has more occurrences,
\* or as many and an earlier first place.
C20_IsTopOf(top, lists) ==
  LET places == C20_Places(lists)
      labels == {lists[p[1]][p[2]] : p \in places}
      count == [x \in labels |-> Cardinality({p \in places : lists[p[1]][p[2]] = x})]
      first == [x \in labels |->
                  CHOOSE p \in places :
                    /\ lists[p[1]][p[2]] = x
                    /\ \A q \in places :
                         lists[q[1]][q[2]] = x =>
                           p[1] < q[1] \/ (p[1] = q[1] /\ p[2] <= q[2])]
      GoesBefore(x, y) ==
        \/ count[x] > count[y]
        \/ /\ count[x] = count[y]
           /\ \/ first[x][1] < first[y][1]
              \/ first[x][1] = first[y][1] /\ first[x][2] < first[y][2]
  IN /\ Len(top) <= 5
     /\ \A k \in DOMAIN top : top[k] \in labels
     /\ \A k, l \in DOMAIN top : k < l => GoesBefore(top[k], top[l])
     /\ \A x \in labels :
          (\A k \in DOMAIN top : top[k] # x) =>
            /\ Len(top) = 5
            /\ \A k \in DOMAIN top : GoesBefore(top[k], x)

\* What the claim says of every topTags and topThemes, over the rows as fetched.
C20_TopsOrdered ==
  insights.called =>
    LET es == InsightsFetched
        topTags == insights.result.topTags
        tags == [k \in DOMAIN es |-> es[k].tags]
        themes == [k \in DOMAIN es |-> es[k].themes]
    IN /\ C20_IsTopOf([k \in DOMAIN topTags |-> topTags[k].tag], tags)
       /\ \A k \in DOMAIN topTags : topTags[k].count = C20_Count(tags, topTags[k].tag)
       /\ C20_IsTopOf(insights.result.topThemes, themes)

\* The insights were asked of a store of exactly three entries written 6, 3
\* and 1 days ago with tags [work], [work, health] and [wins].
C20_Scenario ==
  /\ insights.called
  /\ Len(entries) = 3
  /\ entries[1].created_at = now - 6 /\ entries[1].tags = <<"work">>
  /\ entries[2].created_at = now - 3 /\ entries[2].tags = <<"work", "health">>
  /\ entries[3].created_at = now - 1 /\ entries[3].tags = <<"wins">>

\* C20 as stated: topTags and topThemes are by descending count, ties in order
\* of first appearance, at most 5, and of these three entries the topTags are
\* work (2), health (1), wins (1).
C20_ScenarioHealthBeforeWins ==
  /\ C20_TopsOrdered
  /\ C20_Scenario =>
       insights.result.topTags = << [tag |-> "work", count |-> 2],
                                    [tag |-> "health", count |-> 1],
                                    [tag |-> "wins", count |-> 1] >>

\* C20: topTags and topThemes are by descending count, ties in order of first
\* appearance in the rows as fetched (newest entry first), at most 5, and of
\* these three entries the topTags are work (2), wins (1), health (1).
C20_ScenarioWinsBeforeHealth ==
  /\ C20_TopsOrdered
  /\ C20_Scenario =>
       insights.result.topTags = << [tag |-> "work", count |-> 2],
                                    [tag |-> "wins", count |-> 1],
                                    [tag |-> "health", count |-> 1] >>

C20_Witness ==
  /\ C20_Scenario
  /\ Len(insights.result.topTags) = 3
  /\ Len(insights.result.topThemes) = 5
  /\ Cardinality(C20_Labels([k \in DOMAIN entries |-> entries[k].themes])) > 5

\* The distinct dates of the entries the streak is counted over.
C21_Dates ==
  {entries[i].created_at :
     i \in {j \in DOMAIN entries : entries[j].user_id = insights.userId /\ ~entries[j].deleted}}

\* The dates of the newest run of consecutive days among the dates.
C21_NewestRun(dates) ==
  {d \in dates : \A e \in dates : e >= d => \A f \in d..e : f \in dates}

\* The dates with every date older than g moved one day back.
C21_Lengthened(dates, g) ==
  {d \in dates : d >= g} \cup {d - 1 : d \in {e \in dates : e < g}}

\* Lengthening the gap below any date does not increase the streak.
C21_LongerGapNoLongerStreak ==
  LET dates == C21_Dates
      streak == StreakFrom(dates, now)
  IN \A g \in dates : StreakFrom(C21_Lengthened(dates, g), now) <= streak

\* C21 as stated: the streak is the number of dates of the newest run of
\* consecutive days (all N dates when they are N consecutive days, the dates
\* newer than the first gap otherwise), and lengthening a gap never
\* increases it.
C21_StreakIsNewestRun ==
  insights.called =>
    LET dates == C21_Dates
    IN /\ insights.result.streak = Cardinality(C21_NewestRun(dates))
       /\ C21_LongerGapNoLongerStreak

\* C21: when the newest entry date is today or yesterday the streak is the
\* number of dates of the newest run of consecutive days (all N dates when
\* they are N consecutive days, the dates newer than the first gap
\* otherwise); when the newest entry date is older the streak is 0; and
\* lengthening a gap never increases it.
C21_StreakIsNewestRunFromToday ==
  insights.called =>
    LET dates == C21_Dates
    IN /\ (\E d \in dates : d >= now - 1) =>
            insights.result.streak = Cardinality(C21_NewestRun(dates))
       /\ ~(\E d \in dates : d >= now - 1) => insights.result.streak = 0
       /\ C21_LongerGapNoLongerStreak

C21_Witness ==
  /\ insights.called
  /\ C21_Dates = {now - 1, now - 2, now - 4}
  /\ insights.result.streak = 2

\* The day the walk compares the date d with: the next newer entry date, or
\* today when d is the newest.
C22_LastCounted(dates, d) ==
  IF \E e \in dates : e > d
  THEN CHOOSE e \in dates : e > d /\ \A f \in dates : f > d => e <= f
  ELSE now

\* The dates the walk counts: those that, like every newer date, are 0 or 1
\* days from the day they are compared with.
C22_Counted(dates) ==
  {d \in dates : \A e \in dates : e >= d => C22_LastCounted(dates, e) - e \in {0, 1}}

\* C22: the streak is the number of entry dates that, with every newer entry
\* date, are 0 or 1 days from the last counted day (today at first); with no
\* entry today and one yesterday the streak is at least 1, and with the newest
\* entry 2 or more days old it is 0.
C22_StreakWalk ==
  insights.called =>
    LET dates == C21_Dates
    IN /\ insights.result.streak = Cardinality(C22_Counted(dates))
       /\ now \notin dates /\ now - 1 \in dates => insights.result.streak >= 1
       /\ (\A d \in dates : d <= now - 2) => insights.result.streak = 0

C22_Witness ==
  /\ insights.called
  /\ now \notin C21_Dates /\ now - 1 \in C21_Dates
  /\ insights.result.streak >= 1
  /\ Cardinality(C21_Dates) > insights.result.streak

\* C23: the moodDistribution of the insights reports the three buckets good,
\* okay and rough, their sum is at most the number of entries fetched, and it
\* is that number exactly when every fetched entry has a mood.
C23_MoodDistributionBounded ==
  insights.called =>
    LET md == insights.result.moodDistribution
        es == InsightsFetched
        total == md["good"] + md["okay"] + md["rough"]
    IN /\ DOMAIN md = {"good", "okay", "rough"}
       /\ \A m \in DOMAIN md : md[m] >= 0
       /\ insights.result.entryCount = Len(es)
       /\ total <= Len(es)
       /\ total = Len(es) <=> \A k \in DOMAIN es : es[k].mood # Null

C23_Witness ==
  /\ insights.called
  /\ insights.result.entryCount = 3
  /\ insights.result.moodDistribution["good"] = 1
  /\ insights.result.moodDistribution["okay"] = 0
  /\ insights.result.moodDistribution["rough"] = 1
  /\ \E k \in DOMAIN InsightsFetched : InsightsFetched[k].mood = Null

(***************************************************************************)
(* The frontend store: what the claims speak of.                           *)
(***************************************************************************)
\* The k-th sendMessage call is waiting for its response.
CallWaiting(k) == client.calls[k].pc = "sent"

\* C27 as stated: a sendMessage call made when every earlier call of the
\* session has ended sends the id of the conversation the server used for
\* the earlier calls, so the server creates no second conversation, also
\* when an earlier call failed after the server had created the conversation.
C27_SequentialCallsReachOneConversation ==
  [][\A k \in ChatReqs :
       (/\ client.calls[k].pc = "idle"
        /\ client'.calls[k].pc = "sent"
        /\ \A q \in ChatReqs : q < k => client.calls[q].pc = "done") =>
         \A q \in ChatReqs :
           q < k /\ chatReq[q].conversation.id # 0 =>
             client'.calls[k].conversationId = chatReq[q].conversation.id]_vars

\* C28 as stated: when a sendMessage call fails, the messages of
\* currentConversation are left as they were but for the optimistic user
\* message of that call, which is removed, also when two calls are in flight.
C28_FailedCallRemovesOwnMessage ==
  [][\A k \in ChatReqs :
       (/\ CallWaiting(k)
        /\ client'.calls[k].pc = "done"
        /\ chatReq[k].resp.status # 200) =>
         client'.currentConversation.messages =
           SelectSeq(client.currentConversation.messages,
                     LAMBDA m : m.id # <<"temp", k>>)]_vars

\* C29 as stated: isTyping is true exactly in the states in which a
\* sendMessage call is waiting for its response.
C29_TypingWhileWaiting ==
  client.isTyping <=> \E k \in ChatReqs : CallWaiting(k)

(***************************************************************************)
(* Entries requests: what the claims speak of.                             *)
(***************************************************************************)
\* C2 as stated: once an entry's soft-delete marker is set no operation changes
\* any of its fields, under every interleaving of DELETE /api/entries/:id with an
\* in-flight POST /api/entries that asked for a reflection or an in-flight
\* POST /api/entries/:id/reflect.
C2_DeletedEntryImmutable ==
  [][\A i \in DOMAIN entries : entries[i].deleted => entries'[i] = entries[i]]_vars

\* C7: when POST /api/entries is called with generateReflection = true and the
\* completion fails, the entry is persisted, the request is answered 201 and the
\* returned entry has no reflection; the stored entry has none either, unless a
\* POST /api/entries/:id/reflect stored one.
C7_ReflectionFailureKeepsEntry ==
  \A r \in EntReqs :
    (entReq[r].kind = "create" /\ entReq[r].gen /\ entReq[r].threw) =>
      /\ entReq[r].pc = "done"
      /\ entReq[r].resp.status = 201
      /\ entReq[r].resp.reflection = Null
      /\ entReq[r].resp.err = NoErr
      /\ entReq[r].id \in DOMAIN entries
      /\ entries[entReq[r].id].user_id = entReq[r].user
      /\ \/ entries[entReq[r].id].reflection = Null
         \/ \E q \in EntReqs :
              /\ entReq[q].kind = "reflect" /\ entReq[q].id = entReq[r].id
              /\ entReq[q].pc = "done" /\ entReq[q].resp.status = 200
              /\ entReq[q].resp.reflection = entries[entReq[r].id].reflection

C7_Witness ==
  \E r \in EntReqs :
    /\ entReq[r].kind = "create" /\ entReq[r].gen /\ entReq[r].threw
    /\ entReq[r].pc = "done"
    /\ entries[entReq[r].id].reflection = Null

(***************************************************************************)
(* Summary requests: what the claims speak of.                             *)
(***************************************************************************)
SumDone(r) == sumReq[r].pc = "done"

SumSameKey(r1, r2) ==
  /\ sumReq[r1].user = sumReq[r2].user
  /\ sumReq[r1].startDate = sumReq[r2].startDate
  /\ sumReq[r1].periodType = sumReq[r2].periodType

\* The request answered 200 with a summary text.
SumReturnedText(r) ==
  SumDone(r) /\ sumReq[r].resp.status = 200 /\ sumReq[r].resp.summary # Null

\* The request generated a summary and saved it.
SumSaved(r) == SumReturnedText(r) /\ ~sumReq[r].existing /\ sumReq[r].calls = 1

\* C3 as stated: two sequential summary requests for one period key invoke the
\* completion service at most once in total, and the second returns the summary
\* text the first returned (compared when the first returned a text).
C3_Original ==
  \A r1, r2 \in SumReqs :
    (r1 < r2 /\ SumDone(r1) /\ SumDone(r2) /\ SumSameKey(r1, r2)) =>
      /\ sumReq[r1].calls + sumReq[r2].calls <= 1
      /\ SumReturnedText(r1) => sumReq[r2].resp.summary = sumReq[r1].resp.summary

\* C3 amended: two sequential summary requests for one period key invoke the
\* completion service at most once in total unless the first request's
\* invocation failed; when the first request returned a summary text the second
\* invokes no completion and returns exactly that text.
C3_SecondRequestReturnsCached ==
  \A r1, r2 \in SumReqs :
    (r1 < r2 /\ SumDone(r1) /\ SumDone(r2) /\ SumSameKey(r1, r2)) =>
      /\ ~sumReq[r1].threw => sumReq[r1].calls + sumReq[r2].calls <= 1
      /\ SumReturnedText(r1) =>
           /\ sumReq[r2].calls = 0
           /\ sumReq[r2].resp = sumReq[r1].resp

C3_Witness ==
  \E r1, r2 \in SumReqs :
    /\ r1 < r2 /\ SumSaved(r1) /\ SumDone(r2) /\ SumSameKey(r1, r2)
    /\ sumReq[r1].resp.summary \in SummaryTexts

\* C4 as stated: once a summary row is persisted its summary text never changes,
\* under any interleaving of concurrent summary requests.
C4_Original ==
  [][\A i \in DOMAIN summaries : summaries'[i].summary = summaries[i].summary]_vars

\* C4 amended: once a summary row is persisted for a period key, a request whose
\* existing-summary check runs afterwards returns the stored text, invokes no
\* completion and writes nothing; the stored text changes only by the upsert of a
\* request that had found the key missing (a generation concurrent with the one
\* that persisted the row), and then to that request's text.
C4_GeneratedChangesOnlyByConcurrentWriter ==
  [][/\ \A r \in SumReqs :
          (/\ sumReq[r].pc = "idle" /\ sumReq'[r].pc # "idle"
           /\ SelectSummary(summaries, sumReq'[r].user, sumReq'[r].startDate,
                            sumReq'[r].periodType) # {}) =>
             /\ sumReq'[r].pc = "done"
             /\ sumReq'[r].calls = 0
             /\ sumReq'[r].resp.status = 200
             /\ \A i \in SelectSummary(summaries, sumReq'[r].user, sumReq'[r].startDate,
                                       sumReq'[r].periodType) :
                  sumReq'[r].resp.summary = summaries[i].summary
             /\ summaries' = summaries
     /\ \A r \in SumReqs :
          sumReq'[r].existing => sumReq'[r].pc = "done" /\ sumReq'[r].calls = 0
     /\ \A i \in DOMAIN summaries :
          summaries'[i].summary # summaries[i].summary =>
            \E r \in SumReqs :
              /\ sumReq[r].pc = "save" /\ sumReq'[r].pc = "done"
              /\ ~sumReq[r].existing
              /\ SameKey(summaries[i], sumReq[r].user, sumReq[r].startDate,
                         sumReq[r].periodType)
              /\ summaries'[i].summary = sumReq[r].summary]_vars

C4_Witness ==
  \E r1, r2 \in SumReqs :
    /\ r1 # r2 /\ SumSaved(r1) /\ SumSaved(r2) /\ SumSameKey(r1, r2)
    /\ sumReq[r1].resp.summary # sumReq[r2].resp.summary

\* C5: under any interleaving of summary requests that found one period key
\* missing, no request fails with a unique-constraint error, the table holds at
\* most one row per (user, periodStart, periodType), and after each write that row
\* holds the summary text and the entry count of the request that wrote last.
C5_UpsertNeverConflicts ==
  [][/\ \A r \in SumReqs :
          /\ sumReq'[r].resp.status # 409
          /\ sumReq'[r].resp.err # UniqueViolation
     /\ \A i, j \in DOMAIN summaries' :
          SameKey(summaries'[i], summaries'[j].user_id, summaries'[j].period_start,
                  summaries'[j].period_type) => i = j
     /\ \A r \in SumReqs :
          (sumReq[r].pc = "save" /\ sumReq'[r].pc = "done") =>
            /\ sumReq'[r].resp.status = 200
            /\ \E i \in DOMAIN summaries' :
                 /\ SameKey(summaries'[i], sumReq[r].user, sumReq[r].startDate,
                            sumReq[r].periodType)
                 /\ summaries'[i].summary = sumReq[r].summary
                 /\ summaries'[i].entry_count = sumReq[r].rowCount]_vars

C5_Witness ==
  \E r1, r2 \in SumReqs :
    /\ r1 # r2 /\ SumSaved(r1) /\ SumSaved(r2) /\ SumSameKey(r1, r2)
    /\ sumReq[r1].rowCount # sumReq[r2].rowCount
    /\ Cardinality(SelectSummary(summaries, sumReq[r1].user, sumReq[r1].startDate,
                                 sumReq[r1].periodType)) = 1

====
